---- MODULE Spec2Model ----
(***************************************************************************)
(* Verification model of the Home Assistant custom components of this      *)
(* repository:                                                             *)
(*   - utility_meter_next_gen/sensor.py : the utility-meter accumulator    *)
(*   - balena_cloud/api.py, coordinator.py, services.py, __init__.py       *)
(*   - devtools/ha_connection.py : the WebSocket request multiplexer       *)
(* Each subsystem has its own specification over its own variables; the    *)
(* variables of the other subsystems stay at their initial value.          *)
(***************************************************************************)
EXTENDS Integers, Sequences, FiniteSets, Bags, TLC

(***************************************************************************)
(* Bounds of the model                                                     *)
(***************************************************************************)
\* numeric source readings are "0" .. ToString(MaxSrc)
MaxSrc == 1
\* state_changed events of the source sensor in one run
MaxEvents == 3
\* last instant of the model clock
MaxTime == 1
\* the cron schedule of the model fires at every multiple of CronPeriod
CronPeriod == 1
\* cap on the source subscriptions one meter holds at the same time
MaxSubs == 2
\* Home Assistant restarts in one run
MaxRestarts == 1
\* time-zone changes in one run
MaxTzChanges == 1
\* Decimal texts that parse are those of -MaxDec .. MaxDec
MaxDec == 40
MaxCalls == 2       \* calls of API client methods per run
MaxRequests == 2    \* send_and_receive_many calls per connection
MaxMsgs == 3        \* messages the websocket yields per connection
MaxSubmits == 5     \* forms the user submits in one config flow

(***************************************************************************)
(* Python values.  An optional value is a sequence of length <= 1: None is *)
(* the empty sequence.  A str is a TLA+ string, a Decimal an integer;      *)
(* str(Decimal) is ToString and Decimal(str) parses the text back, raising *)
(* InvalidOperation (IsDecimalText false) on any other text.               *)
(***************************************************************************)
None == <<>>
Some(x) == <<x>>
Val(o) == o[1]

DecRange == (0 - MaxDec) .. MaxDec
PyStr(d) == ToString(d)
DecTexts == {ToString(n) : n \in DecRange}
DecimalOf == [s \in DecTexts |-> CHOOSE n \in DecRange : ToString(n) = s]
IsDecimalText(s) == s \in DecTexts
Decimal(s) == DecimalOf[s]

STATE_UNAVAILABLE == "unavailable"
STATE_UNKNOWN == "unknown"
COLLECTING == "collecting"
PAUSED == "paused"
TOTAL_TARIFF == "total"
SINGLE_TARIFF == "single_tariff"

(***************************************************************************)
(* The utility meters of one parent (one config entry): the sensors in     *)
(* hass.data[DATA_UTILITY][entry_id][DATA_TARIFF_SENSORS].                 *)
(***************************************************************************)
Meters == {1, 2}
EntityId(m) == IF m = 1 THEN "sensor.meter_1" ELSE "sensor.meter_2"
TARIFF_ENTITY == "select.meter_tariff"
OTHER_ENTITY == "sensor.other"
SourceUnit == "kWh"
Times == 0 .. (MaxTime + CronPeriod)

VARIABLES
    cfg,              \* the options of the config entry (fixed after Init)
    meter,            \* meter[m]: the fields of UtilityMeterSensor m
    phase,            \* "absent" | "init" | "added" | "started" | "removed"
    source_listeners, \* active async_track_state_change_event(source) of m
    timers,           \* timers[m][t]: pending async_track_point_in_time at t
    source,           \* hass.states.get(source sensor): None or Some(text)
    calc_source,      \* hass.states.get(calc source sensor)
    tariff_state,     \* hass.states.get(tariff entity)
    hass_tz,          \* hass.config.time_zone
    now,              \* dt_util.utcnow()
    stored,           \* stored[m]: the extra data saved for m at shutdown
    nEvents, nRestarts, nTz,
    probe             \* the last call of calculate_adjustment and its result

meterVars == <<cfg, meter, phase, source_listeners, timers, source, calc_source,
               tariff_state, hass_tz, now, stored, nEvents, nRestarts, nTz,
               probe>>

VARIABLES
    call,             \* the decorated API client method being awaited, if any
    responses,        \* what the completed calls returned or raised
    ws,               \* HAConnection: _message_id, _message_queues, the loop
    generators,       \* the send_and_receive_many generators, by message id
    inbox,            \* the messages the websocket has yielded, in order
    cloud,            \* Balena Cloud: the fleets and devices of the account
    entry,            \* the Balena Cloud config entry and its state
    hass_data,        \* hass.data[DOMAIN]: the coordinator of the entry
    service_handler,  \* the BalenaCloudServiceHandler singleton
    last_call,        \* the last service call and what became of it
    flow              \* the Balena Cloud config flow in progress

retryVars == <<call, responses>>
connVars == <<ws, generators, inbox>>
balenaVars == <<cloud, entry, hass_data, service_handler, last_call, flow>>
vars == <<meterVars, retryVars, connVars, balenaVars>>

(***************************************************************************)
(* UtilityMeterSensor.__init__ and _config_scheduler                       *)
(***************************************************************************)
\* CronSim(pattern, start): the iterator is at `start`; None without a pattern
_config_scheduler(t) == IF cfg.cron THEN Some(t) ELSE None

\* next(self.scheduler): the first occurrence of the schedule after position t
CronNext(t) == ((t \div CronPeriod) + 1) * CronPeriod

InitMeter(t) ==
    [ native_value     |-> None,
      unit             |-> None,
      last_period      |-> 0,
      last_reset       |-> Some(t),
      last_valid_state |-> None,
      collecting       |-> "none",
      calc_current     |-> 0,
      calc_last        |-> 0,
      available        |-> TRUE,
      next_reset       |-> None,
      current_tz       |-> None,
      scheduler        |-> _config_scheduler(t) ]

\* ATTR_STATUS / the status stored: PAUSED if self._collecting is None
Status(self) == IF self.collecting = "none" THEN PAUSED ELSE COLLECTING

\* tariff gating applies: async_source_tracking, sensor.py line 950
Gated(m) ==
    /\ cfg.tariff_entity # None
    /\ (cfg.tariff[m] = None \/ Val(cfg.tariff[m]) # TOTAL_TARIFF)

(***************************************************************************)
(* Readings                                                                *)
(***************************************************************************)
_validate_state(state) ==
    IF state = None \/ Val(state) \in {STATE_UNAVAILABLE, STATE_UNKNOWN}
    THEN None
    ELSE IF IsDecimalText(Val(state)) THEN Some(Decimal(Val(state))) ELSE None

\* an adjustment measured against the old state of the event only
calculate_adjustment_event_only(self, old_state, new_state) ==
    LET new_state_val == _validate_state(new_state)
        old_state_val == _validate_state(old_state)
    IN  IF new_state_val = None THEN None
        ELSE IF cfg.delta_values THEN new_state_val
        ELSE IF old_state_val # None
             THEN Some(Val(new_state_val) - Val(old_state_val))
        ELSE None

\* an adjustment that prefers the old state of the event to last_valid_state
calculate_adjustment_old_first(self, old_state, new_state) ==
    LET new_state_val == _validate_state(new_state)
        old_state_val == _validate_state(old_state)
    IN  IF new_state_val = None THEN None
        ELSE IF cfg.delta_values THEN new_state_val
        ELSE IF old_state_val # None
             THEN Some(Val(new_state_val) - Val(old_state_val))
        ELSE IF ~cfg.periodically_resetting /\ self.last_valid_state # None
             THEN Some(Val(new_state_val) - Val(self.last_valid_state))
        ELSE None

calculate_adjustment(self, old_state, new_state) ==
    LET new_state_val == _validate_state(new_state)
        old_state_val == _validate_state(old_state)
    IN  IF new_state_val = None THEN None
        ELSE IF cfg.delta_values THEN new_state_val
        ELSE IF ~cfg.periodically_resetting /\ self.last_valid_state # None
             THEN Some(Val(new_state_val) - Val(self.last_valid_state))
        ELSE IF old_state_val # None
             THEN Some(Val(new_state_val) - Val(old_state_val))
        ELSE None

\* a start that begins at zero, whatever the calibration value
start_from_zero(self) ==
    [self EXCEPT !.unit = Some(SourceUnit),
                 !.native_value = Some(0),
                 !.calc_current = cfg.calibrate_calc_value]

\* start(attributes) of one sensor
start(self) ==
    [self EXCEPT !.unit = Some(SourceUnit),
                 !.native_value = Some(cfg.calibrate_value),
                 !.calc_current = cfg.calibrate_calc_value]

\* the loop of async_reading over DATA_TARIFF_SENSORS, lines 767-770
StartAll(S) == [s \in Meters |-> IF s \in cfg.meters THEN start(S[s]) ELSE S[s]]

\* lines 785-810: the calculated value follows the adjustment
CalcAfter(self, adjustment) ==
    IF cfg.calc_source_id /\ calc_source # None
       /\ Val(calc_source) \notin {STATE_UNAVAILABLE, STATE_UNKNOWN}
    THEN IF IsDecimalText(Val(calc_source))
         THEN self.calc_current
                + Decimal(Val(calc_source)) * adjustment * cfg.multiplier
         ELSE 0
    ELSE self.calc_current

\* a reading that forgets the last valid state when the new state is invalid
async_reading_forgets(S, m, old_state, new_state) ==
    IF _validate_state(new_state) = None
    THEN [S EXCEPT ![m].last_valid_state = None,
                   ![m].available = new_state # None
                                      /\ Val(new_state) # STATE_UNAVAILABLE]
    ELSE
      LET S1 == IF S[m].native_value = None THEN StartAll(S) ELSE S
          adjustment == calculate_adjustment(S1[m], old_state, new_state)
          S2 == IF adjustment # None
                   /\ (cfg.net_consumption \/ Val(adjustment) >= 0)
                THEN [S1 EXCEPT
                        ![m].native_value =
                            Some(Val(S1[m].native_value) + Val(adjustment)),
                        ![m].calc_current = CalcAfter(S1[m], Val(adjustment))]
                ELSE S1
      IN  [S2 EXCEPT ![m].unit = Some(SourceUnit),
                     ![m].last_valid_state = _validate_state(new_state)]

\* a reading that moves the last valid state only when it adds its adjustment
async_reading_keeps_baseline(S, m, old_state, new_state) ==
    IF new_state = None \/ Val(new_state) = STATE_UNAVAILABLE
    THEN IF ~cfg.sensor_always_available
         THEN [S EXCEPT ![m].available = FALSE]
         ELSE S
    ELSE IF _validate_state(new_state) = None THEN S
    ELSE
      LET S1 == IF S[m].native_value = None THEN StartAll(S) ELSE S
          adjustment == calculate_adjustment(S1[m], old_state, new_state)
      IN  IF adjustment # None
             /\ (cfg.net_consumption \/ Val(adjustment) >= 0)
          THEN [S1 EXCEPT
                  ![m].native_value =
                      Some(Val(S1[m].native_value) + Val(adjustment)),
                  ![m].calc_current = CalcAfter(S1[m], Val(adjustment)),
                  ![m].unit = Some(SourceUnit),
                  ![m].last_valid_state = _validate_state(new_state)]
          ELSE [S1 EXCEPT ![m].unit = Some(SourceUnit)]

\* async_reading of meter m for the event (old_state, new_state); S is the
\* state of all the meters of the parent, and the result their new state
async_reading(S, m, old_state, new_state) ==
    IF new_state = None \/ Val(new_state) = STATE_UNAVAILABLE
    THEN IF ~cfg.sensor_always_available
         THEN [S EXCEPT ![m].available = FALSE]
         ELSE S
    ELSE IF _validate_state(new_state) = None THEN S
    ELSE
      LET S1 == IF S[m].native_value = None THEN StartAll(S) ELSE S
          adjustment == calculate_adjustment(S1[m], old_state, new_state)
          S2 == IF adjustment # None
                   /\ (cfg.net_consumption \/ Val(adjustment) >= 0)
                THEN [S1 EXCEPT
                        ![m].native_value =
                            Some(Val(S1[m].native_value) + Val(adjustment)),
                        ![m].calc_current = CalcAfter(S1[m], Val(adjustment))]
                ELSE S1
      IN  [S2 EXCEPT ![m].unit = Some(SourceUnit),
                     ![m].last_valid_state = _validate_state(new_state)]

\* the callbacks of one state_changed event of the source, in call order
RECURSIVE Deliver(_, _, _, _)
Deliver(S, calls, old_state, new_state) ==
    IF calls = <<>> THEN S
    ELSE Deliver(async_reading(S, Head(calls), old_state, new_state),
                 Tail(calls), old_state, new_state)

\* meter m is called once for each of its active subscriptions
Repeat(m, n) == [i \in 1 .. n |-> m]
CallOrders ==
    { Repeat(a, source_listeners[a]) \o Repeat(b, source_listeners[b]) :
        <<a, b>> \in {<<1, 2>>, <<2, 1>>} }

(***************************************************************************)
(* Status changes, resets, calibration                                     *)
(***************************************************************************)
\* _change_status(tariff): the meter fields and the number of active source
\* subscriptions of the meter after the call
_change_status(self, m, listeners, tariff) ==
    IF cfg.tariff[m] = Some(tariff)
    THEN [ self |-> [self EXCEPT !.collecting = "sub",
                                 !.last_valid_state = None],
           listeners |-> listeners + 1 ]
    ELSE [ self |-> [self EXCEPT !.collecting = "none",
                                 !.last_valid_state = None],
           listeners |-> IF self.collecting = "sub"
                         THEN listeners - 1 ELSE listeners ]

\* a reset that answers only to the entity id of the meter itself
ResetAddresses_own_entity(m, entity_id) ==
    entity_id = None \/ entity_id = Some(EntityId(m))

\* whether async_reset_meter(entity_id) goes past its two early returns
ResetAddresses(m, entity_id) ==
    /\ ~(cfg.tariff_entity # None /\ cfg.tariff_entity # entity_id)
    /\ ~(cfg.tariff_entity = None /\ entity_id # None
         /\ Some(EntityId(m)) # entity_id)

\* a reset that copies the value into last_period after overwriting it
async_reset_meter_late_copy(self, m, entity_id, utcnow) ==
    IF ~ResetAddresses(m, entity_id) THEN self
    ELSE [self EXCEPT
            !.last_reset = Some(utcnow),
            !.last_period = cfg.calibrate_value,
            !.calc_last = IF cfg.calc_source_id THEN self.calc_current ELSE @,
            !.calc_current = cfg.calibrate_calc_value,
            !.native_value = Some(cfg.calibrate_value)]

async_reset_meter(self, m, entity_id, utcnow) ==
    IF ~ResetAddresses(m, entity_id) THEN self
    ELSE [self EXCEPT
            !.last_reset = Some(utcnow),
            !.last_period = IF self.native_value # None
                               /\ Val(self.native_value) # 0
                            THEN Val(self.native_value) ELSE 0,
            !.calc_last = IF cfg.calc_source_id THEN self.calc_current ELSE @,
            !.calc_current = cfg.calibrate_calc_value,
            !.native_value = Some(cfg.calibrate_value)]

\* a _program_reset that programs the first reset only
_program_reset_once(self, pending) ==
    IF self.scheduler # None /\ self.next_reset = None
    THEN LET next == CronNext(Val(self.scheduler))
         IN  [ self |-> [self EXCEPT !.next_reset = Some(next),
                                     !.scheduler = Some(next)],
               pending |-> pending (+) SetToBag({next}) ]
    ELSE [ self |-> self, pending |-> pending ]

\* _program_reset: the meter fields and the pending timers after the call
_program_reset(self, pending) ==
    IF self.scheduler # None
    THEN LET next == CronNext(Val(self.scheduler))
         IN  [ self |-> [self EXCEPT !.next_reset = Some(next),
                                     !.scheduler = Some(next)],
               pending |-> pending (+) SetToBag({next}) ]
    ELSE [ self |-> self, pending |-> pending ]

\* a calibration that also forgets the last valid source state
async_calibrate_forgets(self, value) ==
    [self EXCEPT !.native_value = Some(Decimal(PyStr(value))),
                 !.last_valid_state = None]

async_calibrate(self, value) ==
    [self EXCEPT !.native_value = Some(Decimal(PyStr(value)))]

(***************************************************************************)
(* Restore-state data                                                      *)
(***************************************************************************)
\* extra_restore_state_data: the UtilitySensorExtraStoredData of a meter
extra_restore_state_data(self) ==
    [ native_value     |-> self.native_value,
      unit             |-> self.unit,
      last_period      |-> self.last_period,
      last_reset       |-> self.last_reset,
      last_valid_state |-> self.last_valid_state,
      status           |-> Status(self),
      calc_current     |-> Some(self.calc_current),
      calc_last        |-> Some(self.calc_last) ]

\* str(x) of an optional Decimal: str(None) is "None"
StrOpt(o) == IF o = None THEN "None" ELSE PyStr(Val(o))

\* UtilitySensorExtraStoredData.as_dict; a key that is absent is None here
as_dict(data) ==
    [ native_value     |-> IF data.native_value = None THEN None
                           ELSE Some(PyStr(Val(data.native_value))),
      unit             |-> data.unit,
      last_period      |-> Some(PyStr(data.last_period)),
      last_reset       |-> data.last_reset,
      last_valid_state |-> IF data.last_valid_state # None
                              /\ Val(data.last_valid_state) # 0
                           THEN Some(PyStr(Val(data.last_valid_state)))
                           ELSE None,
      status           |-> Some(data.status),
      calc_current     |-> Some(StrOpt(data.calc_current)),
      calc_last        |-> Some(StrOpt(data.calc_last)) ]

\* restored.get(key) is truthy: the key holds a non-empty text
Truthy(v) == v # None /\ Val(v) # ""

\* Decimal(restored[key]) if restored.get(key) else None, in from_dict
DecimalIfPresent(v) == IF Truthy(v) THEN Some(Decimal(Val(v))) ELSE None

\* from_dict raises KeyError or InvalidOperation, and so returns None
FromDictRaises(restored) ==
    \/ restored.native_value # None /\ ~IsDecimalText(Val(restored.native_value))
    \/ restored.last_period = None
    \/ ~IsDecimalText(Val(restored.last_period))
    \/ restored.last_reset = None
    \/ Truthy(restored.last_valid_state)
         /\ ~IsDecimalText(Val(restored.last_valid_state))
    \/ restored.status = None
    \/ Truthy(restored.calc_current) /\ ~IsDecimalText(Val(restored.calc_current))
    \/ Truthy(restored.calc_last) /\ ~IsDecimalText(Val(restored.calc_last))

\* a from_dict that gives up on a missing key only, and replaces every decimal
\* field it cannot parse by its default
from_dict_field_by_field(restored) ==
    IF restored.last_period = None \/ restored.last_reset = None
       \/ restored.status = None
    THEN None
    ELSE LET dec(v) == IF Truthy(v) /\ IsDecimalText(Val(v))
                       THEN Some(Decimal(Val(v))) ELSE None
         IN  Some([ native_value     |-> dec(restored.native_value),
                    unit             |-> restored.unit,
                    last_period      |-> IF dec(restored.last_period) = None
                                         THEN 0
                                         ELSE Val(dec(restored.last_period)),
                    last_reset       |-> restored.last_reset,
                    last_valid_state |-> dec(restored.last_valid_state),
                    status           |-> Val(restored.status),
                    calc_current     |-> dec(restored.calc_current),
                    calc_last        |-> dec(restored.calc_last) ])

from_dict(restored) ==
    IF FromDictRaises(restored) THEN None
    ELSE Some([ native_value     |-> IF restored.native_value = None THEN None
                                     ELSE Some(Decimal(Val(restored.native_value))),
                unit             |-> restored.unit,
                last_period      |-> Decimal(Val(restored.last_period)),
                last_reset       |-> restored.last_reset,
                last_valid_state |-> DecimalIfPresent(restored.last_valid_state),
                status           |-> Val(restored.status),
                calc_current     |-> DecimalIfPresent(restored.calc_current),
                calc_last        |-> DecimalIfPresent(restored.calc_last) ])

\* async_get_last_sensor_data
async_get_last_sensor_data(m) ==
    IF stored[m] = None THEN None ELSE from_dict(Val(stored[m]))

\* async_added_to_hass, lines 920-945: the fields taken from the restored data
Restore(self, last_sensor_data) ==
    IF last_sensor_data = None THEN self
    ELSE LET d == Val(last_sensor_data)
         IN  [self EXCEPT
                !.native_value = d.native_value,
                !.unit = d.unit,
                !.last_period = d.last_period,
                !.last_reset = d.last_reset,
                !.last_valid_state = d.last_valid_state,
                !.collecting = IF d.status = COLLECTING THEN "null" ELSE @,
                !.calc_current = IF d.calc_current = None THEN 0
                                 ELSE Val(d.calc_current),
                !.calc_last = IF d.calc_last = None THEN 0
                              ELSE Val(d.calc_last)]

(***************************************************************************)
(* The utility meter as a state machine                                    *)
(***************************************************************************)
Connected(m) == phase[m] \in {"added", "started"}

NumericStates == {Some(ToString(n)) : n \in 0 .. MaxSrc}
SrcStates ==
    {None, Some(STATE_UNAVAILABLE), Some(STATE_UNKNOWN), Some("abc")}
        \cup NumericStates
TariffStates == {None, Some("peak"), Some("offpeak")}
ResetTargets ==
    {Some(TARIFF_ENTITY), Some(OTHER_ENTITY)}
        \cup {Some(EntityId(m)) : m \in cfg.meters}
CalibrateValues == {0, MaxSrc + 1}

\* the options a config entry can hold
Tariffs(gated) ==
    IF gated THEN (1 :> Some("peak") @@ 2 :> Some("offpeak"))
    ELSE (1 :> None @@ 2 :> None)
Config(meters, gated, delta, net, periodic, calib, cron, calc) ==
    [ meters                  |-> meters,
      tariff_entity           |-> IF gated THEN Some(TARIFF_ENTITY) ELSE None,
      tariff                  |-> Tariffs(gated),
      delta_values            |-> delta,
      net_consumption         |-> net,
      periodically_resetting  |-> periodic,
      sensor_always_available |-> FALSE,
      calibrate_value         |-> calib,
      calibrate_calc_value    |-> 2 * calib,
      cron                    |-> cron,
      calc_source_id          |-> calc,
      multiplier              |-> 1 ]

\* the state after the meters of a config entry are constructed
MeterInit(configs, tariff0) ==
    /\ cfg \in configs
    /\ meter = [m \in Meters |-> InitMeter(0)]
    /\ phase = [m \in Meters |-> IF m \in cfg.meters THEN "init" ELSE "absent"]
    /\ source_listeners = [m \in Meters |-> 0]
    /\ timers = [m \in Meters |-> EmptyBag]
    /\ source = None
    /\ calc_source = Some("2")
    /\ tariff_state = tariff0
    /\ hass_tz = 0
    /\ now = 0
    /\ stored = [m \in Meters |-> None]
    /\ nEvents = 0
    /\ nRestarts = 0
    /\ nTz = 0
    /\ probe = None

\* async_added_to_hass
AddedToHass(m) ==
    /\ phase[m] = "init"
    /\ LET p == _program_reset([meter[m] EXCEPT !.current_tz = Some(hass_tz)],
                               timers[m])
       IN  /\ meter' = [meter EXCEPT
                          ![m] = Restore(p.self, async_get_last_sensor_data(m))]
           /\ timers' = [timers EXCEPT ![m] = p.pending]
    /\ phase' = [phase EXCEPT ![m] = "added"]
    /\ UNCHANGED <<cfg, source_listeners, source, calc_source, tariff_state,
                   hass_tz, now, stored, nEvents, nRestarts, nTz, probe,
                   retryVars, connVars, balenaVars>>

\* async_source_tracking, called once Home Assistant has started
SourceTracking(m) ==
    /\ phase[m] = "added"
    /\ phase' = [phase EXCEPT ![m] = "started"]
    /\ IF Gated(m)
       THEN IF tariff_state = None
            THEN UNCHANGED <<meter, source_listeners>>
            ELSE LET c == _change_status(meter[m], m, source_listeners[m],
                                         Val(tariff_state))
                 IN  /\ meter' = [meter EXCEPT ![m] = c.self]
                     /\ source_listeners' =
                          [source_listeners EXCEPT ![m] = c.listeners]
       ELSE /\ meter' = [meter EXCEPT ![m].collecting = "sub"]
            /\ source_listeners' = [source_listeners EXCEPT ![m] = @ + 1]
    /\ UNCHANGED <<cfg, timers, source, calc_source, tariff_state, hass_tz, now,
                   stored, nEvents, nRestarts, nTz, probe,
                   retryVars, connVars, balenaVars>>

\* a state_changed event of the tariff entity: async_tariff_change of every
\* meter that tracks it (an event may repeat the state: attributes changed)
TariffChange(new) ==
    /\ new # None \/ tariff_state # None
    /\ LET handles(m) == phase[m] = "started" /\ Gated(m) /\ new # None
           c(m) == _change_status(meter[m], m, source_listeners[m], Val(new))
       IN  /\ \A m \in Meters : handles(m) => c(m).listeners <= MaxSubs
           /\ meter' = [m \in Meters |->
                          IF handles(m) THEN c(m).self ELSE meter[m]]
           /\ source_listeners' =
                [m \in Meters |->
                    IF handles(m) THEN c(m).listeners ELSE source_listeners[m]]
    /\ tariff_state' = new
    /\ UNCHANGED <<cfg, phase, timers, source, calc_source, hass_tz, now, stored,
                   nEvents, nRestarts, nTz, probe,
                   retryVars, connVars, balenaVars>>

\* a state_changed event of the source sensor: async_reading of every
\* subscription, in the order of one of the call orders
SourceChange(new) ==
    /\ nEvents < MaxEvents
    /\ new # None \/ source # None
    /\ source' = new
    /\ nEvents' = nEvents + 1
    /\ \E calls \in CallOrders : meter' = Deliver(meter, calls, source, new)
    /\ UNCHANGED <<cfg, phase, source_listeners, timers, calc_source,
                   tariff_state, hass_tz, now, stored, nRestarts, nTz, probe,
                   retryVars, connVars, balenaVars>>

\* _async_reset_meter: the scheduled reset fires
ScheduledReset(m, t) ==
    /\ Connected(m)
    /\ BagIn(t, timers[m])
    /\ t <= now
    /\ LET r == async_reset_meter(meter[m], m, cfg.tariff_entity, now)
           p == _program_reset(r, timers[m] (-) SetToBag({t}))
       IN  /\ meter' = [meter EXCEPT ![m] = p.self]
           /\ timers' = [timers EXCEPT ![m] = p.pending]
    /\ UNCHANGED <<cfg, phase, source_listeners, source, calc_source,
                   tariff_state, hass_tz, now, stored, nEvents, nRestarts, nTz, probe,
                   retryVars, connVars, balenaVars>>

\* SIGNAL_RESET_METER dispatched with entity_id: async_reset_meter of every
\* connected meter
ResetSignal(entity_id) ==
    /\ \E m \in Meters : Connected(m)
    /\ meter' = [m \in Meters |->
                   IF Connected(m)
                   THEN async_reset_meter(meter[m], m, entity_id, now)
                   ELSE meter[m]]
    /\ UNCHANGED <<cfg, phase, source_listeners, timers, source, calc_source,
                   tariff_state, hass_tz, now, stored, nEvents, nRestarts, nTz, probe,
                   retryVars, connVars, balenaVars>>

\* the calibrate entity service
Calibrate(m, value) ==
    /\ Connected(m)
    /\ meter' = [meter EXCEPT ![m] = async_calibrate(meter[m], value)]
    /\ UNCHANGED <<cfg, phase, source_listeners, timers, source, calc_source,
                   tariff_state, hass_tz, now, stored, nEvents, nRestarts, nTz, probe,
                   retryVars, connVars, balenaVars>>

\* EVENT_CORE_CONFIG_UPDATE with a new time zone: async_track_time_zone
TimeZoneChange ==
    /\ nTz < MaxTzChanges
    /\ nTz' = nTz + 1
    /\ hass_tz' = 1 - hass_tz
    /\ LET p(m) == _program_reset(
                      [meter[m] EXCEPT !.current_tz = Some(hass_tz'),
                                       !.scheduler = _config_scheduler(now)],
                      timers[m])
           handles(m) == Connected(m) /\ meter[m].current_tz # Some(hass_tz')
       IN  /\ meter' = [m \in Meters |->
                          IF handles(m) THEN p(m).self ELSE meter[m]]
           /\ timers' = [m \in Meters |->
                           IF handles(m) THEN p(m).pending ELSE timers[m]]
    /\ UNCHANGED <<cfg, phase, source_listeners, source, calc_source,
                   tariff_state, now, stored, nEvents, nRestarts, probe,
                   retryVars, connVars, balenaVars>>

\* async_will_remove_from_hass, then the async_on_remove callbacks
Remove(m) ==
    /\ Connected(m)
    /\ phase' = [phase EXCEPT ![m] = "removed"]
    /\ meter' = [meter EXCEPT ![m].collecting = "none"]
    /\ source_listeners' =
         [source_listeners EXCEPT
            ![m] = IF meter[m].collecting = "sub" THEN @ - 1 ELSE @]
    /\ timers' = [timers EXCEPT ![m] = EmptyBag]
    /\ UNCHANGED <<cfg, source, calc_source, tariff_state, hass_tz, now, stored,
                   nEvents, nRestarts, nTz, probe,
                   retryVars, connVars, balenaVars>>

\* Home Assistant stops and starts again: the extra data of every registered
\* meter is saved, and the meters are constructed anew
Restart ==
    /\ nRestarts < MaxRestarts
    /\ \A m \in cfg.meters : phase[m] # "init"
    /\ nRestarts' = nRestarts + 1
    /\ stored' = [m \in Meters |->
                    IF Connected(m)
                    THEN Some(as_dict(extra_restore_state_data(meter[m])))
                    ELSE stored[m]]
    /\ meter' = [m \in Meters |-> InitMeter(now)]
    /\ phase' = [m \in Meters |-> IF m \in cfg.meters THEN "init" ELSE "absent"]
    /\ source_listeners' = [m \in Meters |-> 0]
    /\ timers' = [m \in Meters |-> EmptyBag]
    /\ source' = None
    /\ tariff_state' = None
    /\ UNCHANGED <<cfg, calc_source, hass_tz, now, nEvents, nTz, probe,
                   retryVars, connVars, balenaVars>>

Tick ==
    /\ now < MaxTime
    /\ now' = now + 1
    /\ UNCHANGED <<cfg, meter, phase, source_listeners, timers, source,
                   calc_source, tariff_state, hass_tz, stored, nEvents,
                   nRestarts, nTz, probe,
                   retryVars, connVars, balenaVars>>

(***************************************************************************)
(* balena_cloud/api.py: the async_retry decorator around the client        *)
(* methods                                                                 *)
(***************************************************************************)
MAX_RETRIES == 3
RETRY_DELAY == 1

\* what one balena SDK call can do: return, or raise one of these
SdkOutcomes ==
    {"ok", "RequestError", "BalenaException", "MalformedToken", "Unauthorized",
     "NotFound", "OSError"}
ApiMethods ==
    {"async_get_user_info", "async_get_fleets", "async_get_devices",
     "async_reboot_device"}

Return(value) == [kind |-> "return", value |-> value]
Raise(exc) == [kind |-> "raise", value |-> exc]

\* the bodies of the decorated methods: the try around the SDK call
async_get_user_info(sdk) ==
    IF sdk = "ok" THEN Return("data")
    ELSE IF sdk \in {"MalformedToken", "Unauthorized"}
         THEN Raise("BalenaCloudAuthenticationError")
    ELSE Raise("BalenaCloudAPIError")
async_get_fleets(sdk) ==
    IF sdk = "ok" THEN Return("data")
    ELSE IF sdk \in {"MalformedToken", "Unauthorized"}
         THEN Raise("BalenaCloudAuthenticationError")
    ELSE Raise("BalenaCloudAPIError")
async_get_devices(sdk) ==
    IF sdk = "ok" THEN Return("data")
    ELSE IF sdk = "NotFound" THEN Return("[]")
    ELSE IF sdk \in {"MalformedToken", "Unauthorized"}
         THEN Raise("BalenaCloudAuthenticationError")
    ELSE Raise("BalenaCloudAPIError")
async_reboot_device(sdk) ==
    IF sdk = "ok" THEN Return("True")
    ELSE IF sdk = "NotFound" THEN Return("False")
    ELSE IF sdk = "MalformedToken"
         THEN Raise("BalenaCloudAuthenticationError")
    ELSE Return("False")
func(method, sdk) ==
    CASE method = "async_get_user_info" -> async_get_user_info(sdk)
      [] method = "async_get_fleets"    -> async_get_fleets(sdk)
      [] method = "async_get_devices"   -> async_get_devices(sdk)
      [] method = "async_reboot_device" -> async_reboot_device(sdk)

\* the exceptions the wrapper of async_retry catches
RetriedExceptions == {"RequestError", "BalenaException"}

NoCall == [state |-> "idle"]
RetryIdle ==
    /\ call = NoCall
    /\ responses = <<>>

\* a caller awaits a decorated method: the wrapper enters its loop
CallApi(method) ==
    /\ call.state = "idle"
    /\ Len(responses) < MaxCalls
    /\ call' = [state |-> "running", method |-> method, attempt |-> 0,
                sdk |-> <<>>, slept |-> 0]
    /\ UNCHANGED <<responses, meterVars, connVars, balenaVars>>

Finish(c, sdk, r) ==
    Append(responses, [method |-> c.method, sdk |-> Append(c.sdk, sdk),
                       kind |-> r.kind, value |-> r.value, slept |-> c.slept])

\* one iteration of the wrapper's loop, the SDK call of which ends as `sdk`
wrapper(sdk) ==
    /\ call.state = "running"
    /\ LET r == func(call.method, sdk)
       IN  IF r.kind = "return" \/ r.value \notin RetriedExceptions
           THEN /\ responses' = Finish(call, sdk, r)
                /\ call' = NoCall
           ELSE IF call.attempt < MAX_RETRIES
           THEN /\ call' = [call EXCEPT
                              !.attempt = @ + 1,
                              !.sdk = Append(@, sdk),
                              !.slept = @ + RETRY_DELAY * (2 ^ call.attempt)]
                /\ UNCHANGED responses
           ELSE /\ responses' = Finish(call, sdk, Raise("BalenaCloudAPIError"))
                /\ call' = NoCall
    /\ UNCHANGED <<meterVars, connVars, balenaVars>>

(***************************************************************************)
(* devtools/ha_connection.py: HAConnection after __aenter__ has            *)
(* authenticated and started the receive loop                              *)
(***************************************************************************)
MessageIds == 1 .. (MaxRequests + 1)
WSMsgTypes == {"TEXT", "BINARY", "ERROR"}

\* the messages the websocket can yield as the n-th one
WSMessages(n) ==
    {[type |-> "TEXT", id |-> i, n |-> n] : i \in MessageIds}
        \cup {[type |-> t, id |-> 0, n |-> n] : t \in WSMsgTypes \ {"TEXT"}}

\* dict.pop / del on a dict held as a function
Without(d, key) == [k \in DOMAIN d \ {key} |-> d[k]]

ConnInit ==
    /\ ws = [_message_id |-> 1, _message_queues |-> <<>>,
             receive_loop |-> "running"]
    /\ generators = <<>>
    /\ inbox = <<>>

\* a receive loop that hands a message nobody waits for to the oldest queue
dispatch_to_oldest(queues, message) ==
    IF message.id \in DOMAIN queues
    THEN [queues EXCEPT ![message.id] = Append(@, message)]
    ELSE IF DOMAIN queues = {} THEN queues
    ELSE LET oldest == CHOOSE i \in DOMAIN queues :
                           \A j \in DOMAIN queues : i <= j
         IN  [queues EXCEPT ![oldest] = Append(@, message)]

\* __receive_loop, lines 89-96: the queue of the message's id, if there is one
dispatch(queues, message) ==
    IF message.id \in DOMAIN queues
    THEN [queues EXCEPT ![message.id] = Append(@, message)]
    ELSE queues

\* one iteration of __receive_loop
Receive(msg) ==
    /\ ws.receive_loop = "running"
    /\ Len(inbox) < MaxMsgs
    /\ inbox' = Append(inbox, msg)
    /\ ws' = IF msg.type = "ERROR" THEN [ws EXCEPT !.receive_loop = "ended"]
             ELSE IF msg.type # "TEXT" THEN ws
             ELSE [ws EXCEPT
                     !._message_queues = dispatch(ws._message_queues, msg)]
    /\ UNCHANGED <<generators, meterVars, retryVars, balenaVars>>

\* send_and_receive_many up to its first queue.get(): the id is taken, the
\* queue registered and the message sent; a send that fails runs the finally
SendRequest(sent) ==
    /\ ws._message_id <= MaxRequests
    /\ LET id == ws._message_id
       IN  /\ ws' = [ws EXCEPT
                       !._message_id = @ + 1,
                       !._message_queues =
                           IF sent THEN (id :> <<>>) @@ @ ELSE @]
           /\ generators' =
                (id :> [state |-> IF sent THEN "open" ELSE "closed",
                        yielded |-> <<>>,
                        opened_at |-> Len(inbox)]) @@ generators
    /\ UNCHANGED <<inbox, meterVars, retryVars, balenaVars>>

\* queue.get() returns and the generator yields the response
Consume(id) ==
    /\ id \in DOMAIN generators
    /\ generators[id].state = "open"
    /\ ws._message_queues[id] # <<>>
    /\ generators' = [generators EXCEPT
                        ![id].yielded = Append(@, Head(ws._message_queues[id]))]
    /\ ws' = [ws EXCEPT !._message_queues[id] = Tail(@)]
    /\ UNCHANGED <<inbox, meterVars, retryVars, balenaVars>>

\* the generator is closed: the finally deletes its queue
CloseGenerator(id) ==
    /\ id \in DOMAIN generators
    /\ generators[id].state = "open"
    /\ generators' = [generators EXCEPT ![id].state = "closed"]
    /\ ws' = [ws EXCEPT !._message_queues = Without(@, id)]
    /\ UNCHANGED <<inbox, meterVars, retryVars, balenaVars>>

(***************************************************************************)
(* balena_cloud: the data update coordinator, the setup of the config      *)
(* entry and the service handler                                           *)
(***************************************************************************)
FleetIds == {1, 2}
Uuids == {"a", "b"}
UuidOrder == <<"a", "b">>
ENTRY_ID == "entry1"
Services ==
    {"restart_application", "reboot_device", "shutdown_device",
     "update_environment", "enable_device_url", "disable_device_url"}

\* entry.data[CONF_FLEETS]: the fleet ids as the config flow stored them
SelectedFleets ==
    {<<>>, <<"1">>, <<"2">>, <<"1", "2">>, <<"x", "1">>, <<"3">>}

\* a device of the account: the fleet it belongs to and whether it is online
CloudDevices == {None} \cup {Some([fleet |-> f, is_online |-> o]) :
                               f \in FleetIds, o \in BOOLEAN}
CloudStates == [fleets : SUBSET FleetIds, devices : [Uuids -> CloudDevices]]

\* int(fleet_id_str): None stands for ValueError
int(text) ==
    IF \E n \in 0 .. 9 : ToString(n) = text
    THEN Some(CHOOSE n \in 0 .. 9 : ToString(n) = text)
    ELSE None

\* the list models.application.get_all returns
RECURSIVE FleetsData(_)
FleetsData(ids) ==
    IF ids = {} THEN <<>>
    ELSE LET id == CHOOSE i \in ids : \A j \in ids : i <= j
         IN  <<[id |-> id, app_name |-> ToString(id)]>> \o FleetsData(ids \ {id})

\* the list models.device.get_all / get_all_by_application returns;
\* async_get_devices: `if fleet_id` selects the call
DeviceData(u) ==
    [uuid |-> u, belongs_to__application |-> Val(cloud.devices[u]).fleet,
     is_online |-> Val(cloud.devices[u]).is_online]
RECURSIVE DevicesData(_, _)
DevicesData(fleet_id, i) ==
    IF i > Len(UuidOrder) THEN <<>>
    ELSE LET u == UuidOrder[i]
             listed == /\ cloud.devices[u] # None
                       /\ fleet_id # 0 => Val(cloud.devices[u]).fleet = fleet_id
         IN  (IF listed THEN <<DeviceData(u)>> ELSE <<>>)
                 \o DevicesData(fleet_id, i + 1)
api_async_get_devices(fleet_id) == DevicesData(fleet_id, 1)

\* BalenaFleet.from_api_data and BalenaDevice.from_api_data
BalenaFleet(data) == [id |-> data.id, app_name |-> data.app_name]
BalenaDevice(data, fleet_name) ==
    [uuid |-> data.uuid, fleet_id |-> data.belongs_to__application,
     is_online |-> data.is_online, fleet_name |-> fleet_name]

\* _async_update_fleets, after the fetch: clear, then one entry per fleet
RECURSIVE StoreFleets(_, _)
StoreFleets(fleets, fleets_data) ==
    IF fleets_data = <<>> THEN fleets
    ELSE LET fleet == BalenaFleet(Head(fleets_data))
         IN  StoreFleets((fleet.id :> fleet) @@ fleets, Tail(fleets_data))
_async_update_fleets(self) ==
    [self EXCEPT !.fleets = StoreFleets(<<>>, FleetsData(cloud.fleets))]

\* _async_update_devices, lines 103-116: the devices of the selected fleets
RECURSIVE FetchSelected(_, _, _)
FetchSelected(self, selected, all_devices) ==
    IF selected = <<>> THEN all_devices
    ELSE LET fleet_id == int(Head(selected))
             fetched ==
                 IF fleet_id # None /\ Val(fleet_id) \in DOMAIN self.fleets
                 THEN api_async_get_devices(Val(fleet_id))
                 ELSE <<>>
         IN  FetchSelected(self, Tail(selected), all_devices \o fetched)
AllDevices(self) ==
    IF entry.selected_fleets # <<>>
    THEN FetchSelected(self, entry.selected_fleets, <<>>)
    ELSE api_async_get_devices(0)

\* whether _async_update_devices calls async_get_devices at all
FetchesDevices(self) ==
    \/ entry.selected_fleets = <<>>
    \/ \E i \in DOMAIN entry.selected_fleets :
          LET fleet_id == int(entry.selected_fleets[i])
          IN  fleet_id # None /\ Val(fleet_id) \in DOMAIN self.fleets

\* _async_update_devices, lines 119-153: one entry per device processed
RECURSIVE StoreDevices(_, _, _)
StoreDevices(self, devices, all_devices) ==
    IF all_devices = <<>> THEN devices
    ELSE LET device_data == Head(all_devices)
             fleet_id == device_data.belongs_to__application
             fleet_name == IF fleet_id \in DOMAIN self.fleets
                           THEN self.fleets[fleet_id].app_name ELSE ""
             device == BalenaDevice(device_data, fleet_name)
         IN  IF ~entry.include_offline_devices /\ ~device.is_online
             THEN StoreDevices(self, devices, Tail(all_devices))
             ELSE StoreDevices(self, (device.uuid :> device) @@ devices,
                               Tail(all_devices))

\* an update that keeps the devices of the earlier refresh
_async_update_devices_keeps(self) ==
    [self EXCEPT !.devices = StoreDevices(self, self.devices, AllDevices(self))]

_async_update_devices(self) ==
    [self EXCEPT !.devices = StoreDevices(self, <<>>, AllDevices(self))]

\* _async_update_data; `fails` names the API call that raises, if any
_async_update_data(self, fails) ==
    IF fails = "fleets" THEN [self EXCEPT !.last_update_success = FALSE]
    ELSE LET fetched == _async_update_fleets(self)
         IN  IF fails = "devices" /\ FetchesDevices(fetched)
             THEN [fetched EXCEPT !.last_update_success = FALSE]
             ELSE [_async_update_devices(fetched) EXCEPT
                     !.last_update_success = TRUE]
Failures == {"none", "fleets", "devices"}

\* BalenaCloudDataUpdateCoordinator.__init__
Coordinator == [fleets |-> <<>>, devices |-> <<>>, last_update_success |-> TRUE]

\* BalenaCloudServiceHandler.get_coordinator_for_device
get_coordinator_for_device(device_uuid) ==
    LET found == {e \in service_handler._coordinators :
                     /\ hass_data # None
                     /\ device_uuid \in DOMAIN Val(hass_data).devices}
    IN  IF found = {} THEN None ELSE Some(CHOOSE e \in found : TRUE)

\* balena_cloud/sensor.py: the keys of SENSOR_TYPES
SENSOR_TYPES ==
    {"cpu_usage", "memory_usage", "storage_usage", "temperature", "fleet_name",
     "ip_address", "mac_address"}
device_specific_sensors ==
    {"cpu_usage", "memory_usage", "storage_usage", "temperature", "ip_address"}

\* BalenaCloudDataUpdateCoordinator.get_device
get_device(self, device_uuid) ==
    IF device_uuid \in DOMAIN self.devices
    THEN Some(self.devices[device_uuid]) ELSE None

\* BalenaCloudSensorEntity.available of the sensor `key` of a device;
\* CoordinatorEntity.available is the coordinator's last_update_success
available(key, device_uuid) ==
    /\ hass_data # None
    /\ LET coordinator == Val(hass_data)
           device == get_device(coordinator, device_uuid)
       IN  /\ coordinator.last_update_success
           /\ device # None
           /\ key \in device_specific_sensors => Val(device).is_online

(***************************************************************************)
(* balena_cloud/config_flow.py: the config flow.  `step` is the form the   *)
(* flow last showed ("none" before the flow is opened, "done" once it has  *)
(* created the entry), `errors` the error of that form, `created` the      *)
(* entry the flow created.                                                 *)
(***************************************************************************)
\* what models.application.get_all may answer: an id of 0 and an empty name
\* are falsy
FleetLists ==
    { <<>>,
      <<[id |-> 1, app_name |-> "one"]>>,
      <<[id |-> 0, app_name |-> "zero"], [id |-> 2, app_name |-> ""]>>,
      <<[id |-> 1, app_name |-> "one"], [id |-> 2, app_name |-> "two"]>> }

async_show_form(self, step_id, errors) ==
    [self EXCEPT !.step = step_id, !.errors = errors]

\* _async_validate_input: the flow and the exception raised, if any
_async_validate_input(self, api_token, sdk) ==
    LET r == async_get_user_info(sdk)
    IN  IF r.kind = "return"
        THEN [ self |-> [self EXCEPT !.user_info =
                                        Some([token |-> api_token,
                                              data |-> r.value])],
               raised |-> None ]
        ELSE IF r.value = "BalenaCloudAuthenticationError"
        THEN [ self |-> self, raised |-> Some("InvalidAuth") ]
        ELSE [ self |-> self, raised |-> Some("CannotConnect") ]

_async_fetch_fleets(self, sdk, fleets_data) ==
    LET r == async_get_fleets(sdk)
        kept == { i \in 1 .. Len(fleets_data) :
                    fleets_data[i].id # 0 /\ fleets_data[i].app_name # "" }
        key(i) == ToString(fleets_data[i].id)
        \* the dict comprehension: a later fleet replaces an earlier one
        \* of the same id
        fleets == [ k \in {key(i) : i \in kept} |->
                      fleets_data[CHOOSE i \in kept :
                                    /\ key(i) = k
                                    /\ \A j \in kept : key(j) = k => j <= i].app_name ]
    IN  IF r.kind = "return"
        THEN [ self |-> [self EXCEPT !.fleets = fleets], raised |-> None ]
        ELSE [ self |-> self, raised |-> Some(r.value) ]

async_step_fleets(self, user_input, sdk, fleets_data) ==
    LET f == IF DOMAIN self.fleets = {}
             THEN _async_fetch_fleets(self, sdk, fleets_data)
             ELSE [ self |-> self, raised |-> None ]
        errors == IF f.raised # None THEN Some("cannot_connect") ELSE None
    IN  IF user_input # None
        THEN [f.self EXCEPT
                !.step = "done",
                !.created = Some([ user_info |-> f.self.user_info,
                                   api_token |-> f.self.api_token,
                                   fleets    |-> Val(user_input) ])]
        ELSE IF DOMAIN f.self.fleets = {}
        THEN async_show_form(f.self, "user", Some("no_fleets"))
        ELSE async_show_form(f.self, "fleets", errors)

\* a user step that goes on to the fleets whatever the validation raised
async_step_user_unvalidated(self, user_input, sdk, sdk_fleets, fleets_data) ==
    IF user_input = None THEN async_show_form(self, "user", None)
    ELSE async_step_fleets([self EXCEPT !.api_token = user_input],
                           None, sdk_fleets, fleets_data)

async_step_user(self, user_input, sdk, sdk_fleets, fleets_data) ==
    IF user_input = None THEN async_show_form(self, "user", None)
    ELSE LET v == _async_validate_input(self, Val(user_input), sdk)
         IN  IF v.raised = None
             THEN async_step_fleets([v.self EXCEPT !.api_token = user_input],
                                    None, sdk_fleets, fleets_data)
             ELSE IF v.raised = Some("CannotConnect")
             THEN async_show_form(v.self, "user", Some("cannot_connect"))
             ELSE async_show_form(v.self, "user", Some("invalid_auth"))

BalenaInit(entries, clouds) ==
    /\ cloud \in clouds
    /\ entry \in entries
    /\ hass_data = None
    /\ service_handler = [_coordinators |-> {}, registered |-> FALSE]
    /\ last_call = None
    \* BalenaCloudConfigFlow.__init__ (config_flow.py), no form shown yet
    /\ flow = [ api_token |-> None, fleets |-> <<>>, user_info |-> None,
                step |-> "none", errors |-> None, created |-> None,
                submits |-> 0 ]
Entries ==
    [selected_fleets : SelectedFleets, include_offline_devices : BOOLEAN,
     state : {"not_loaded"}]

\* async_setup_entry: the coordinator, its first refresh, hass.data, services
SetupEntry(fails) ==
    /\ entry.state = "not_loaded"
    /\ LET coordinator == _async_update_data(Coordinator, fails)
       IN  IF coordinator.last_update_success
           THEN /\ hass_data' = Some(coordinator)
                /\ entry' = [entry EXCEPT !.state = "loaded"]
                /\ service_handler' = [service_handler EXCEPT !.registered = TRUE]
           ELSE UNCHANGED <<hass_data, entry, service_handler>>
    /\ UNCHANGED <<cloud, last_call, flow, meterVars, retryVars, connVars>>

\* async_unload_entry
UnloadEntry ==
    /\ entry.state = "loaded"
    /\ hass_data' = None
    /\ entry' = [entry EXCEPT !.state = "not_loaded"]
    /\ UNCHANGED <<cloud, service_handler, last_call, flow, meterVars,
                   retryVars, connVars>>

\* the coordinator's periodic refresh
Refresh(fails) ==
    /\ entry.state = "loaded"
    /\ hass_data' = Some(_async_update_data(Val(hass_data), fails))
    /\ UNCHANGED <<cloud, entry, service_handler, last_call, flow, meterVars,
                   retryVars, connVars>>

\* the account changes in the cloud: a fleet appears or goes, a device does
CloudChange(new) ==
    /\ new # cloud
    /\ \/ new.devices = cloud.devices
       \/ /\ new.fleets = cloud.fleets
          /\ \E u \in Uuids :
                \A v \in Uuids \ {u} : new.devices[v] = cloud.devices[v]
    /\ cloud' = new
    /\ UNCHANGED <<entry, hass_data, service_handler, last_call, flow,
                   meterVars, retryVars, connVars>>

\* one of the six service handlers, and the coordinator method it calls
ServiceCall(service, device_uuid, api_result) ==
    /\ service_handler.registered
    /\ LET coordinator == get_coordinator_for_device(device_uuid)
       IN  last_call' =
             Some([service |-> service, device_uuid |-> device_uuid,
                   coordinator |-> coordinator,
                   called_api |->
                       /\ coordinator # None
                       /\ device_uuid \in DOMAIN Val(hass_data).devices,
                   result |->
                       /\ coordinator # None
                       /\ device_uuid \in DOMAIN Val(hass_data).devices
                       /\ api_result])
    /\ UNCHANGED <<cloud, entry, hass_data, service_handler, flow, meterVars,
                   retryVars, connVars>>

\* the user opens the config flow: the flow manager calls the user step
\* without input
FlowOpen ==
    /\ flow.step = "none"
    /\ flow' = async_step_user(flow, None, "ok", "ok", <<>>)
    /\ UNCHANGED <<cloud, entry, hass_data, service_handler, last_call,
                   meterVars, retryVars, connVars>>

\* the user submits the form of the user step
SubmitUser(api_token, sdk, sdk_fleets, fleets_data) ==
    /\ flow.step = "user"
    /\ flow.submits < MaxSubmits
    /\ flow' = [async_step_user(flow, Some(api_token), sdk, sdk_fleets,
                                fleets_data)
                  EXCEPT !.submits = @ + 1]
    /\ UNCHANGED <<cloud, entry, hass_data, service_handler, last_call,
                   meterVars, retryVars, connVars>>

\* the user submits the form of the fleets step
SubmitFleets(selected, sdk, fleets_data) ==
    /\ flow.step = "fleets"
    /\ flow.submits < MaxSubmits
    /\ selected \subseteq DOMAIN flow.fleets
    /\ flow' = [async_step_fleets(flow, Some(selected), sdk, fleets_data)
                  EXCEPT !.submits = @ + 1]
    /\ UNCHANGED <<cloud, entry, hass_data, service_handler, last_call,
                   meterVars, retryVars, connVars>>

(***************************************************************************)
(* Specifications.  Each takes the handlers above and the events of one    *)
(* scenario of one component; the other components stay as constructed.    *)
(***************************************************************************)
MeterIdle ==
    MeterInit({Config({1}, FALSE, TRUE, FALSE, FALSE, 0, FALSE, FALSE)}, None)
ConnIdle == ConnInit
BalenaIdle ==
    BalenaInit({[selected_fleets |-> <<>>, include_offline_devices |-> TRUE,
                 state |-> "not_loaded"]},
               {[fleets |-> {}, devices |-> [u \in Uuids |-> None]]})
NotMeterIdle == RetryIdle /\ ConnIdle /\ BalenaIdle

\* resets and calibration of one meter that reads deltas
ResetConfigs ==
    { Config({1}, g, TRUE, FALSE, FALSE, 1, cron, calc) :
        g \in BOOLEAN, cron \in BOOLEAN, calc \in BOOLEAN }
ResetInit == MeterInit(ResetConfigs, Some("peak")) /\ NotMeterIdle
ResetNext ==
    \/ \E m \in Meters : AddedToHass(m)
    \/ \E m \in Meters : SourceTracking(m)
    \/ \E new \in NumericStates : SourceChange(new)
    \/ \E m \in Meters, t \in 0 .. MaxTime : ScheduledReset(m, t)
    \/ \E e \in ResetTargets : ResetSignal(e)
    \/ \E m \in Meters, v \in CalibrateValues : Calibrate(m, v)
    \/ Tick
SpecReset == ResetInit /\ [][ResetNext]_vars

\* the schedule of one cron meter while time passes and the time zone changes
ScheduleConfigs ==
    { Config({1}, g, TRUE, FALSE, FALSE, 1, TRUE, FALSE) : g \in BOOLEAN }
ScheduleInit == MeterInit(ScheduleConfigs, Some("peak")) /\ NotMeterIdle
ScheduleNext ==
    \/ \E m \in Meters : AddedToHass(m)
    \/ \E m \in Meters : SourceTracking(m)
    \/ \E new \in NumericStates : SourceChange(new)
    \/ \E m \in Meters, t \in 0 .. MaxTime : ScheduledReset(m, t)
    \/ \E e \in ResetTargets : ResetSignal(e)
    \/ \E m \in Meters, v \in CalibrateValues : Calibrate(m, v)
    \/ TimeZoneChange
    \/ Tick
SpecSchedule == ScheduleInit /\ [][ScheduleNext]_vars

\* tariff gating of one meter bound to the tariff "peak"
TariffConfigs ==
    { Config({1}, TRUE, d, FALSE, p, 1, FALSE, FALSE) :
        d \in BOOLEAN, p \in BOOLEAN }
TariffInit == MeterInit(TariffConfigs, None) /\ NotMeterIdle
TariffNext ==
    \/ \E m \in Meters : AddedToHass(m)
    \/ \E m \in Meters : SourceTracking(m)
    \/ \E new \in TariffStates : TariffChange(new)
    \/ \E new \in SrcStates : SourceChange(new)
    \/ \E m \in Meters : Remove(m)
SpecTariff == TariffInit /\ [][TariffNext]_vars

\* the restore-state data of one ungated meter across restarts
RestoreConfigs ==
    { Config({1}, FALSE, d, n, p, 1, FALSE, TRUE) :
        d \in BOOLEAN, n \in BOOLEAN, p \in BOOLEAN }
RestoreInit == MeterInit(RestoreConfigs, None) /\ NotMeterIdle
RestoreNext ==
    \/ \E m \in Meters : AddedToHass(m)
    \/ \E m \in Meters : SourceTracking(m)
    \/ \E new \in SrcStates : SourceChange(new)
    \/ \E e \in ResetTargets : ResetSignal(e)
    \/ Restart
SpecRestore == RestoreInit /\ [][RestoreNext]_vars

\* the two tariff meters of one parent: tariff changes, readings and
\* calibrations
SiblingInit ==
    /\ MeterInit({ Config({1, 2}, TRUE, FALSE, FALSE, FALSE, 1, FALSE, c) :
                     c \in BOOLEAN }, None)
    /\ NotMeterIdle
SiblingNext ==
    \/ \E m \in Meters : AddedToHass(m)
    \/ \E m \in Meters : SourceTracking(m)
    \/ \E new \in TariffStates : TariffChange(new)
    \/ \E new \in NumericStates : SourceChange(new)
    \/ \E m \in Meters, value \in CalibrateValues : Calibrate(m, value)
SpecSiblings == SiblingInit /\ [][SiblingNext]_vars

\* reset signals to the two tariff meters of one parent, one collecting and
\* one paused, and to a meter without a tariff entity
SignalInit ==
    /\ MeterInit({ Config({1, 2}, TRUE, FALSE, FALSE, FALSE, 1, FALSE, TRUE),
                   Config({1}, FALSE, FALSE, FALSE, FALSE, 1, FALSE, TRUE) },
                 Some("peak"))
    /\ NotMeterIdle
SignalNext ==
    \/ \E m \in Meters : AddedToHass(m)
    \/ \E m \in Meters : SourceTracking(m)
    \/ \E new \in NumericStates : SourceChange(new)
    \/ \E e \in ResetTargets : ResetSignal(e)
    \/ Tick
SpecSignal == SignalInit /\ [][SignalNext]_vars

\* a meter added over stored data of any content: keys may be absent and the
\* decimal fields may hold texts that are not numbers
StoredInit ==
    /\ MeterInit({Config({1}, FALSE, FALSE, FALSE, FALSE, 1, FALSE, TRUE)},
                 None)!1
    /\ meter = [m \in Meters |-> InitMeter(0)]
    /\ phase = [m \in Meters |-> IF m \in cfg.meters THEN "init" ELSE "absent"]
    /\ source_listeners = [m \in Meters |-> 0]
    /\ timers = [m \in Meters |-> EmptyBag]
    /\ source = None
    /\ calc_source = Some("2")
    /\ tariff_state = None
    /\ hass_tz = 0
    /\ now = 0
    /\ \E restored \in
            [ native_value     : {None, Some("1"), Some("abc")},
              unit             : {Some(SourceUnit)},
              last_period      : {None, Some("2"), Some("abc")},
              last_reset       : {None, Some(0)},
              last_valid_state : {None, Some(""), Some("1"), Some("abc")},
              status           : {None, Some(COLLECTING), Some(PAUSED)},
              calc_current     : {None, Some("3"), Some("abc")},
              calc_last        : {Some("0"), Some("abc")} ] :
          stored = [m \in Meters |-> IF m = 1 THEN Some(restored) ELSE None]
    /\ nEvents = 0
    /\ nRestarts = 0
    /\ nTz = 0
    /\ probe = None
    /\ NotMeterIdle
StoredNext ==
    \/ \E m \in Meters : AddedToHass(m)
    \/ \E m \in Meters : SourceTracking(m)
    \/ \E new \in NumericStates : SourceChange(new)
SpecStored == StoredInit /\ [][StoredNext]_vars

\* calculate_adjustment as a function of its inputs: the mode of the meter,
\* its last_valid_state and the two states of the event
AdjustConfigs ==
    { Config({1}, FALSE, d, FALSE, p, 0, FALSE, FALSE) :
        d \in BOOLEAN, p \in BOOLEAN }
LastValidStates == {None} \cup {Some(n) : n \in 0 .. MaxSrc}
AdjustInit ==
    /\ MeterInit(AdjustConfigs, None)!1
    /\ meter \in { [m \in Meters |->
                      [InitMeter(0) EXCEPT !.last_valid_state = l]] :
                   l \in LastValidStates }
    /\ phase = [m \in Meters |-> IF m \in cfg.meters THEN "init" ELSE "absent"]
    /\ source_listeners = [m \in Meters |-> 0]
    /\ timers = [m \in Meters |-> EmptyBag]
    /\ source = None
    /\ calc_source = Some("2")
    /\ tariff_state = None
    /\ hass_tz = 0
    /\ now = 0
    /\ stored = [m \in Meters |-> None]
    /\ nEvents = 0
    /\ nRestarts = 0
    /\ nTz = 0
    /\ probe = None
    /\ NotMeterIdle
CalculateAdjustment(old_state, new_state) ==
    /\ probe' = Some([ old_state |-> old_state,
                       new_state |-> new_state,
                       result    |-> calculate_adjustment(meter[1], old_state,
                                                          new_state) ])
    /\ UNCHANGED <<cfg, meter, phase, source_listeners, timers, source,
                   calc_source, tariff_state, hass_tz, now, stored, nEvents,
                   nRestarts, nTz,
                   retryVars, connVars, balenaVars>>
AdjustNext ==
    \E old_state \in SrcStates, new_state \in SrcStates \ {None} :
        CalculateAdjustment(old_state, new_state)
SpecAdjust == AdjustInit /\ [][AdjustNext]_vars

\* calls of the decorated API client methods, each SDK call ending any way
RetryInit == MeterIdle /\ RetryIdle /\ ConnIdle /\ BalenaIdle
RetryNext ==
    \/ \E method \in ApiMethods : CallApi(method)
    \/ \E sdk \in SdkOutcomes : wrapper(sdk)
SpecRetry == RetryInit /\ [][RetryNext]_vars

\* requests and responses multiplexed over one authenticated connection
ConnectionInit == MeterIdle /\ RetryIdle /\ ConnInit /\ BalenaIdle
ConnectionNext ==
    \/ \E msg \in WSMessages(Len(inbox) + 1) : Receive(msg)
    \/ \E sent \in BOOLEAN : SendRequest(sent)
    \/ \E id \in MessageIds : Consume(id)
    \/ \E id \in MessageIds : CloseGenerator(id)
SpecConnection == ConnectionInit /\ [][ConnectionNext]_vars

\* the coordinator of one config entry while the account changes
CoordinatorInit ==
    MeterIdle /\ RetryIdle /\ ConnIdle /\ BalenaInit(Entries, CloudStates)
CoordinatorNext ==
    \/ \E fails \in Failures : SetupEntry(fails)
    \/ \E fails \in Failures : Refresh(fails)
    \/ \E new \in CloudStates : CloudChange(new)
    \/ UnloadEntry
SpecCoordinator == CoordinatorInit /\ [][CoordinatorNext]_vars

\* service calls to a config entry whose account does not change
ServicesEntries ==
    [selected_fleets : {<<>>, <<"1">>}, include_offline_devices : BOOLEAN,
     state : {"not_loaded"}]
ServicesClouds ==
    [fleets : {{1}, {1, 2}},
     devices : [Uuids -> {None, Some([fleet |-> 1, is_online |-> TRUE]),
                          Some([fleet |-> 2, is_online |-> FALSE])}]]
ServicesInit ==
    MeterIdle /\ RetryIdle /\ ConnIdle
        /\ BalenaInit(ServicesEntries, ServicesClouds)
ServicesNext ==
    \/ \E fails \in Failures : SetupEntry(fails)
    \/ \E fails \in Failures : Refresh(fails)
    \/ UnloadEntry
    \/ \E service \in Services, device_uuid \in Uuids, api_result \in BOOLEAN :
          ServiceCall(service, device_uuid, api_result)
SpecServices == ServicesInit /\ [][ServicesNext]_vars

\* the config flow: a flow as constructed, the user step, the fleets step,
\* the answers of the API
FlowInit == MeterIdle /\ RetryIdle /\ ConnIdle /\ BalenaIdle
FlowNext ==
    \/ FlowOpen
    \/ \E api_token \in {"token1", "token2", "token3"}, sdk \in SdkOutcomes,
          sdk_fleets \in SdkOutcomes, fleets_data \in FleetLists :
          SubmitUser(api_token, sdk, sdk_fleets, fleets_data)
    \/ \E selected \in SUBSET {"1", "2"}, sdk \in SdkOutcomes,
          fleets_data \in FleetLists :
          SubmitFleets(selected, sdk, fleets_data)
SpecFlow == FlowInit /\ [][FlowNext]_vars

\* every Decimal of the model is one that Decimal(str) parses
DecimalsInRange ==
    \A m \in Meters :
        /\ meter[m].native_value # None => Val(meter[m].native_value) \in DecRange
        /\ meter[m].last_period \in DecRange
        /\ meter[m].calc_current \in DecRange
        /\ meter[m].calc_last \in DecRange

(***************************************************************************)
(* C2: whenever a reset is applied to a meter, by its schedule or by a     *)
(* reset signal that addresses it, then right afterwards last_period is    *)
(* the value held before the reset (0 if there was none), the value is     *)
(* calibrate_value, calculated_current_value is calibrate_calc_value and   *)
(* last_reset is the time of the reset.                                    *)
(***************************************************************************)
ResetApplied(m) ==
    \/ \E t \in 0 .. MaxTime : ScheduledReset(m, t)
    \/ /\ Connected(m)
       /\ \E e \in ResetTargets : ResetAddresses(m, e) /\ ResetSignal(e)

C2_ResetPostcondition ==
    [][\A m \in Meters :
         ResetApplied(m) =>
            /\ meter'[m].last_period =
                  (IF meter[m].native_value = None THEN 0
                   ELSE Val(meter[m].native_value))
            /\ meter'[m].native_value = Some(cfg.calibrate_value)
            /\ meter'[m].calc_current = cfg.calibrate_calc_value
            /\ meter'[m].last_reset = Some(now)]_meterVars

\* a reset at a later instant has moved an accumulated value to last_period
C2_Witness ==
    /\ now > 0
    /\ meter[1].last_reset = Some(now)
    /\ meter[1].last_period > cfg.calibrate_value
    /\ meter[1].native_value = Some(cfg.calibrate_value)

(***************************************************************************)
(* C5: a meter with a cron schedule that has been added always has its     *)
(* next reset programmed: next_reset is set and a timer for it is pending, *)
(* also right after a scheduled reset has fired.                           *)
(***************************************************************************)
C5_NextResetProgrammed ==
    \A m \in Meters :
        (Connected(m) /\ cfg.cron) =>
            /\ meter[m].next_reset # None
            /\ BagIn(Val(meter[m].next_reset), timers[m])

\* the first scheduled reset has fired and the second occurrence is pending
C5_Witness ==
    /\ cfg.cron /\ Connected(1) /\ nTz = 0
    /\ meter[1].last_reset = Some(CronPeriod)
    /\ meter[1].next_reset = Some(2 * CronPeriod)
    /\ BagIn(2 * CronPeriod, timers[1])

(***************************************************************************)
(* C6: the calibrate service sets the value of the meter to the given      *)
(* number and changes no other field of the meter, nor its subscription    *)
(* or its pending scheduled resets.                                        *)
(***************************************************************************)
C6_CalibrateFrame ==
    [][\A m \in Meters, v \in CalibrateValues :
         Calibrate(m, v) =>
            /\ meter'[m] = [meter[m] EXCEPT !.native_value = Some(v)]
            /\ \A o \in Meters \ {m} : meter'[o] = meter[o]
            /\ timers' = timers
            /\ source_listeners' = source_listeners]_meterVars

\* a meter that has read, and has been reset, is calibrated to 0
C6_Witness ==
    /\ meter[1].native_value = Some(0)
    /\ meter[1].last_valid_state # None
    /\ meter[1].last_period > 0
    /\ cfg.calibrate_value > 0

(***************************************************************************)
(* C1: a tariff-gated meter whose tariff entity holds another tariff than  *)
(* its own is paused, and no state change of the source alters the value   *)
(* it holds.  (The first reading that gives a meter without a value its    *)
(* initial value is not counted as an alteration.)                         *)
(***************************************************************************)
C1_TariffGating ==
    [][\A m \in Meters :
         (/\ Gated(m) /\ phase[m] = "started"
          /\ tariff_state # None /\ tariff_state # cfg.tariff[m]
          /\ nEvents' = nEvents + 1)
         => /\ Status(meter[m]) = PAUSED
            /\ (meter[m].native_value # None
                  => meter'[m].native_value = meter[m].native_value)]_meterVars

\* a state that holds one of the numbers the source reports
IsNumber(state) == state # None /\ \E n \in 0 .. MaxSrc : Val(state) = ToString(n)
NumberOf(state) == CHOOSE n \in 0 .. MaxSrc : Val(state) = ToString(n)

C4_RoundTrip ==
    \A m \in Meters :
        m \in cfg.meters =>
            LET data == extra_restore_state_data(meter[m])
            IN  from_dict(as_dict(data)) = Some(data)

(***************************************************************************)
(* C7: a call of a decorated API client method whose first SDK call fails  *)
(* with RequestError or BalenaException is retried, and it raises          *)
(* BalenaCloudAPIError to its caller only after MAX_RETRIES + 1 SDK calls  *)
(* have failed.                                                            *)
(***************************************************************************)
C7_RetriedBeforeRaising ==
    \A i \in DOMAIN responses :
        LET r == responses[i]
        IN  r.sdk[1] \in RetriedExceptions =>
              /\ Len(r.sdk) > 1
              /\ (r.kind = "raise" /\ r.value = "BalenaCloudAPIError")
                    => Len(r.sdk) = MAX_RETRIES + 1

(***************************************************************************)
(* C8: a refresh of the coordinator that completes without error leaves    *)
(* in the fleet cache exactly the fleets of the account, keyed by id, and  *)
(* in the device cache exactly the devices of the selected fleets that the *)
(* account has (all devices when no fleet is selected), keyed by uuid,     *)
(* without the offline devices when include_offline_devices is off.        *)
(***************************************************************************)
RefreshCompleted ==
    /\ \E fails \in Failures : SetupEntry(fails) \/ Refresh(fails)
    /\ hass_data' # None
    /\ Val(hass_data').last_update_success
IsSelected(f) ==
    \/ entry.selected_fleets = <<>>
    \/ /\ f \in cloud.fleets
       /\ \E i \in DOMAIN entry.selected_fleets :
             entry.selected_fleets[i] = ToString(f)
ExpectedDevices ==
    {u \in Uuids :
        /\ cloud.devices[u] # None
        /\ IsSelected(Val(cloud.devices[u]).fleet)
        /\ entry.include_offline_devices \/ Val(cloud.devices[u]).is_online}

C8_RefreshCachesExactly ==
    [][RefreshCompleted =>
        LET c == Val(hass_data')
        IN  /\ DOMAIN c.fleets = cloud.fleets
            /\ \A id \in DOMAIN c.fleets : c.fleets[id].id = id
            /\ DOMAIN c.devices = ExpectedDevices
            /\ \A u \in DOMAIN c.devices :
                  /\ c.devices[u].uuid = u
                  /\ c.devices[u].fleet_id = Val(cloud.devices[u]).fleet
                  /\ c.devices[u].is_online = Val(cloud.devices[u]).is_online]_vars

\* fleet 1 is selected beside an invalid id; of its two devices the offline
\* one is left out, and both fleets of the account are cached
C8_Witness ==
    /\ hass_data # None
    /\ Val(hass_data).last_update_success
    /\ entry.selected_fleets = <<"x", "1">>
    /\ ~entry.include_offline_devices
    /\ cloud.fleets = {1, 2}
    /\ cloud.devices["a"] = Some([fleet |-> 1, is_online |-> TRUE])
    /\ cloud.devices["b"] = Some([fleet |-> 1, is_online |-> FALSE])
    /\ DOMAIN Val(hass_data).fleets = {1, 2}
    /\ DOMAIN Val(hass_data).devices = {"a"}

(***************************************************************************)
(* C9: what a request has been yielded, followed by what waits in its      *)
(* queue, is exactly the text messages carrying its id that arrived while  *)
(* it was outstanding, in arrival order; a closed request was yielded only *)
(* such messages; no queue exists for an id without outstanding request.   *)
(***************************************************************************)
ArrivedFor(id) ==
    LET Mine(m) == m.type = "TEXT" /\ m.id = id
    IN  SelectSeq(SubSeq(inbox, generators[id].opened_at + 1, Len(inbox)), Mine)
IsPrefix(s, t) == Len(s) <= Len(t) /\ s = SubSeq(t, 1, Len(s))

C9_Demultiplexed ==
    /\ DOMAIN ws._message_queues =
          {id \in DOMAIN generators : generators[id].state = "open"}
    /\ \A id \in DOMAIN generators :
          IF generators[id].state = "open"
          THEN generators[id].yielded \o ws._message_queues[id] = ArrivedFor(id)
          ELSE IsPrefix(generators[id].yielded, ArrivedFor(id))

\* two requests outstanding; two responses for request 2 with a message for
\* an unknown id between them: one yielded, one queued, none for request 1
C9_Witness ==
    /\ DOMAIN ws._message_queues = {1, 2}
    /\ Len(inbox) = 3
    /\ \A i \in 1 .. 3 : inbox[i].type = "TEXT"
    /\ inbox[1].id = 2 /\ inbox[2].id = 3 /\ inbox[3].id = 2
    /\ generators[2].yielded = <<inbox[1]>>
    /\ ws._message_queues[2] = <<inbox[3]>>
    /\ generators[1].yielded = <<>>
    /\ ws._message_queues[1] = <<>>

(***************************************************************************)
(* C10: once the config entry is set up, a service call that names a       *)
(* device held in the cache of the entry's coordinator is dispatched to    *)
(* that coordinator, which calls the API operation.                        *)
(***************************************************************************)
C10_ServiceDispatched ==
    [][\A service \in Services, device_uuid \in Uuids, api_result \in BOOLEAN :
         (/\ ServiceCall(service, device_uuid, api_result)
          /\ entry.state = "loaded"
          /\ hass_data # None
          /\ device_uuid \in DOMAIN Val(hass_data).devices)
         => /\ Val(last_call').coordinator = Some(ENTRY_ID)
            /\ Val(last_call').called_api]_vars

(***************************************************************************)
(* C11: the CPU, memory, storage, temperature, IP address and MAC address  *)
(* sensors of a device that is offline are unavailable, while the          *)
(* fleet-name sensor of a cached device is available also when the device  *)
(* is offline (the coordinator's last update having succeeded).            *)
(***************************************************************************)
C11_SensorAvailability ==
    \A u \in Uuids :
        (hass_data # None /\ u \in DOMAIN Val(hass_data).devices) =>
            /\ ~Val(hass_data).devices[u].is_online =>
                  \A key \in SENSOR_TYPES \ {"fleet_name"} : ~available(key, u)
            /\ Val(hass_data).last_update_success => available("fleet_name", u)

(***************************************************************************)
(* C12: a meter never holds more than one active subscription to its       *)
(* source sensor, and a meter that is paused or removed holds none.        *)
(***************************************************************************)
C12_SingleSubscription ==
    \A m \in Meters :
        /\ source_listeners[m] <= 1
        /\ (\/ phase[m] = "removed"
            \/ phase[m] = "started" /\ Status(meter[m]) = PAUSED)
              => source_listeners[m] = 0

(***************************************************************************)
(* C13: when a meter without a value receives its first reading, a sibling *)
(* meter of the same parent that already holds a value, and is not itself  *)
(* subscribed to the source, keeps its value and its calculated current    *)
(* value.                                                                  *)
(***************************************************************************)
C13_FirstReadingSparesSiblings ==
    [][\A s \in cfg.meters :
         (/\ nEvents' = nEvents + 1
          /\ meter[s].native_value # None
          /\ source_listeners[s] = 0
          /\ \E m \in cfg.meters \ {s} :
                meter[m].native_value = None /\ source_listeners[m] > 0)
         => /\ meter'[s].native_value = meter[s].native_value
            /\ meter'[s].calc_current = meter[s].calc_current]_vars

(***************************************************************************)
(* C14: with net_consumption off, no state change of the source makes the  *)
(* value of a meter decrease: a reading adds a non-negative adjustment or  *)
(* nothing.                                                                *)
(***************************************************************************)
C14_ValueNeverDecreases ==
    [][\A m \in cfg.meters :
         (/\ nEvents' = nEvents + 1
          /\ ~cfg.net_consumption
          /\ meter[m].native_value # None)
         => /\ meter'[m].native_value # None
            /\ Val(meter'[m].native_value) >= Val(meter[m].native_value)]_vars

C16_ResumeBaseline ==
    [][\A m \in cfg.meters :
         (Gated(m) /\ phase[m] = "started") =>
           /\ (tariff_state' # None /\ \E new \in TariffStates : TariffChange(new))
                => meter'[m].last_valid_state = None
           /\ (/\ nEvents' = nEvents + 1
               /\ IsNumber(source')
               /\ ~cfg.delta_values
               /\ meter[m].native_value # None
               /\ meter[m].last_valid_state = None)
                => meter'[m].native_value =
                     Some(Val(meter[m].native_value)
                            + IF /\ Status(meter[m]) = COLLECTING
                                 /\ IsNumber(source)
                                 /\ NumberOf(source') >= NumberOf(source)
                              THEN NumberOf(source') - NumberOf(source)
                              ELSE 0)]_vars

(***************************************************************************)
(* C17: a meter has at most one scheduled reset pending at any time, also  *)
(* after a change of time zone has reconfigured its scheduler.             *)
(***************************************************************************)
C17_OnePendingReset ==
    \A m \in cfg.meters : BagCardinality(timers[m]) <= 1

C19_RolloverLowersBaseline ==
    [][\A m \in cfg.meters :
         (/\ nEvents' = nEvents + 1
          /\ ~cfg.delta_values /\ ~cfg.net_consumption
          /\ ~Gated(m) /\ source_listeners[m] = 1
          /\ IsNumber(source')
          /\ meter[m].native_value # None)
         => LET useLast == ~cfg.periodically_resetting
                             /\ meter[m].last_valid_state # None
                hasRef == useLast \/ IsNumber(source)
                ref == IF useLast THEN Val(meter[m].last_valid_state)
                       ELSE NumberOf(source)
            IN  /\ meter'[m].last_valid_state = Some(NumberOf(source'))
                /\ (hasRef /\ NumberOf(source') < ref)
                     => meter'[m].native_value = meter[m].native_value
                /\ (hasRef /\ NumberOf(source') >= ref)
                     => meter'[m].native_value =
                          Some(Val(meter[m].native_value)
                                 + NumberOf(source') - ref)]_vars

\* the meter was restored with last valid state 1 and value 1 after a run of
\* one source event; the new run read "0", which was not added, and then "1",
\* which was counted from the baseline 0
C19_Witness ==
    /\ ~cfg.delta_values /\ ~cfg.net_consumption
    /\ nRestarts = 1 /\ nEvents = 3
    /\ stored[1] # None
    /\ Val(stored[1]).last_valid_state = Some("1")
    /\ Val(stored[1]).native_value = Some("1")
    /\ source = Some("1")
    /\ source_listeners[1] = 1
    /\ meter[1].last_valid_state = Some(1)
    /\ meter[1].native_value = Some(2)

(***************************************************************************)
(* C20: a reset signal naming another entity than the tariff entity of a   *)
(* meter (for a meter without a tariff entity: another entity than the     *)
(* meter itself) leaves every field of the meter unchanged; a signal       *)
(* naming the tariff entity resets every connected meter bound to it,      *)
(* collecting or paused: the value goes to last_period and becomes the     *)
(* calibration value, and last_reset is the time of the signal.            *)
(***************************************************************************)
C20_ResetSignalAddressing ==
    [][\A e \in ResetTargets :
         ResetSignal(e) =>
           \A m \in cfg.meters :
             Connected(m) =>
               IF \/ cfg.tariff_entity # None /\ e # cfg.tariff_entity
                  \/ cfg.tariff_entity = None /\ e # Some(EntityId(m))
               THEN meter'[m] = meter[m]
               ELSE cfg.tariff_entity # None =>
                      /\ meter'[m].native_value = Some(cfg.calibrate_value)
                      /\ meter'[m].last_period =
                           (IF meter[m].native_value = None THEN 0
                            ELSE Val(meter[m].native_value))
                      /\ meter'[m].last_reset = Some(now)]_vars

\* both tariff meters, the collecting and the paused one, have been reset
\* after they held a value
C20_Witness ==
    /\ cfg.tariff_entity # None
    /\ \A m \in {1, 2} : phase[m] = "started" /\ meter[m].last_period > 0
    /\ Status(meter[1]) = COLLECTING /\ source_listeners[1] = 1
    /\ Status(meter[2]) = PAUSED /\ source_listeners[2] = 0
    /\ meter[1].last_period > meter[2].last_period
    /\ meter[2].native_value = Some(cfg.calibrate_value)

(***************************************************************************)
(* C21: with sensor_always_available off, a subscribed meter is available  *)
(* after it has processed a numeric reading of its source, also when an    *)
(* earlier missing or unavailable source had marked it unavailable.        *)
(***************************************************************************)
C21_AvailableAgain ==
    [][\A m \in cfg.meters :
         (/\ nEvents' = nEvents + 1
          /\ ~cfg.sensor_always_available
          /\ source_listeners[m] > 0
          /\ IsNumber(source'))
         => meter'[m].available]_vars

(***************************************************************************)
(* C22: when the stored data of a meter lacks last_period, last_reset or   *)
(* status, or holds a text that is not a number in native_value or         *)
(* last_period, or a non-empty such text in last_valid_state or a          *)
(* calculated value, adding the meter restores nothing: every field the    *)
(* restore assigns keeps the default of the new meter.                     *)
(***************************************************************************)
C22_NoPartialRestore ==
    [][\A m \in cfg.meters :
         (/\ phase[m] = "init" /\ phase'[m] = "added"
          /\ stored[m] # None
          /\ LET r == Val(stored[m])
                 bad(v) == v # None /\ Val(v) # "" /\ ~IsDecimalText(Val(v))
             IN  \/ r.last_period = None \/ r.last_reset = None
                 \/ r.status = None
                 \/ r.native_value # None /\ ~IsDecimalText(Val(r.native_value))
                 \/ ~IsDecimalText(Val(r.last_period))
                 \/ bad(r.last_valid_state)
                 \/ bad(r.calc_current) \/ bad(r.calc_last))
         => /\ meter'[m].native_value = None
            /\ meter'[m].unit = None
            /\ meter'[m].last_period = 0
            /\ meter'[m].last_reset = meter[m].last_reset
            /\ meter'[m].last_valid_state = None
            /\ meter'[m].collecting = "none"
            /\ meter'[m].calc_current = 0
            /\ meter'[m].calc_last = 0]_vars

\* a meter was added over stored data whose only defect is a calculated last
\* value that is not a number, all its other fields holding values
C22_Witness ==
    /\ phase[1] = "added"
    /\ stored[1] # None
    /\ Val(stored[1]).native_value = Some("1")
    /\ Val(stored[1]).last_period = Some("2")
    /\ Val(stored[1]).last_reset # None
    /\ Val(stored[1]).last_valid_state = Some("1")
    /\ Val(stored[1]).status = Some(COLLECTING)
    /\ Val(stored[1]).calc_current = Some("3")
    /\ Val(stored[1]).calc_last = Some("abc")
    /\ meter[1].native_value = None

(***************************************************************************)
(* C23: for an ungated meter in absolute mode with net_consumption on, the *)
(* first reading leaves the value at calibrate_value plus the difference   *)
(* between the new state and the first numeric state of its event, and     *)
(* every later numeric reading moves the value by as much as the reading   *)
(* moved (measured from last_valid_state, or from the old state of the     *)
(* event for a periodically resetting source); over consecutive numeric    *)
(* readings the value minus calibrate_value is therefore the last state    *)
(* minus the first.                                                        *)
(***************************************************************************)
C23_ValueFollowsSource ==
    [][\A m \in cfg.meters :
         (/\ nEvents' = nEvents + 1
          /\ ~cfg.delta_values /\ cfg.net_consumption
          /\ ~Gated(m) /\ source_listeners[m] = 1
          /\ IsNumber(source'))
         => LET first == IF IsNumber(source) THEN NumberOf(source)
                         ELSE NumberOf(source')
            IN  /\ meter'[m].last_valid_state = Some(NumberOf(source'))
                /\ meter[m].native_value = None
                     => Val(meter'[m].native_value) - cfg.calibrate_value
                          = NumberOf(source') - first
                /\ (/\ meter[m].native_value # None
                    /\ meter[m].last_valid_state # None
                    /\ ~cfg.periodically_resetting)
                     => Val(meter'[m].native_value) - NumberOf(source')
                          = Val(meter[m].native_value)
                              - Val(meter[m].last_valid_state)
                /\ (/\ meter[m].native_value # None
                    /\ IsNumber(source)
                    /\ cfg.periodically_resetting)
                     => Val(meter'[m].native_value) - NumberOf(source')
                          = Val(meter[m].native_value) - NumberOf(source)]_vars

\* in a run of three source events without restart the source went from "1"
\* to "0" and the meter holds calibrate_value - 1
C23_Witness ==
    /\ ~cfg.delta_values /\ cfg.net_consumption
    /\ nRestarts = 0 /\ nEvents = 3
    /\ source = Some("0")
    /\ source_listeners[1] = 1
    /\ meter[1].last_valid_state = Some(0)
    /\ meter[1].native_value = Some(cfg.calibrate_value - 1)
    /\ meter[1].last_period = 0

(***************************************************************************)
(* C24: the config flow creates an entry only from the fleets form, with   *)
(* the token whose validation succeeded and after a non-empty fleet list   *)
(* was fetched.  A token whose validation fails on authentication brings   *)
(* back the user form with invalid_auth, one whose validation fails        *)
(* otherwise the user form with cannot_connect, and a valid token with an  *)
(* empty fleet list (the API answered none that counts, or the call        *)
(* failed) the user form with no_fleets; none of these creates an entry.   *)
(***************************************************************************)
C24_EntryOnlyAfterValidation ==
    [][/\ (flow.created = None /\ flow'.created # None)
            => /\ flow.step = "fleets"
               /\ flow.api_token # None
               /\ flow.user_info # None
               /\ Val(flow.user_info).token = Val(flow.api_token)
               /\ DOMAIN flow.fleets # {}
               /\ Val(flow'.created).api_token = flow.api_token
       /\ \A api_token \in {"token1", "token2", "token3"}, sdk \in SdkOutcomes,
             sdk_fleets \in SdkOutcomes, fleets_data \in FleetLists :
             SubmitUser(api_token, sdk, sdk_fleets, fleets_data)
               => LET back(error) == /\ flow'.step = "user"
                                     /\ flow'.errors = Some(error)
                                     /\ flow'.created = None
                                     /\ flow'.api_token = flow.api_token
                  IN  /\ sdk \in {"MalformedToken", "Unauthorized"}
                           => back("invalid_auth")
                      /\ sdk \notin {"ok", "MalformedToken", "Unauthorized"}
                           => back("cannot_connect")
                      /\ (/\ sdk = "ok"
                          /\ \/ sdk_fleets # "ok"
                             \/ \A i \in 1 .. Len(fleets_data) :
                                   \/ fleets_data[i].id = 0
                                   \/ fleets_data[i].app_name = "")
                           => /\ flow'.step = "user"
                              /\ flow'.errors = Some("no_fleets")
                              /\ flow'.created = None]_vars

\* after one rejected token the flow created an entry for the second token
\* and one of the two fleets fetched
C24_Witness ==
    /\ flow.step = "done"
    /\ flow.submits = 3
    /\ flow.created # None
    /\ Val(flow.created).api_token = Some("token2")
    /\ Val(flow.created).fleets = {"1"}
    /\ DOMAIN flow.fleets = {"1", "2"}
    /\ flow.user_info # None
    /\ Val(flow.user_info).token = "token2"

====
